---- MODULE Spec2Model ----
(***************************************************************************)
(* Round-resolution core of botbrawl (src/src/main.ts, planAIActions.ts):  *)
(* the planning/execution phase flag, the round timer, the hit resolver,   *)
(* the win check, the game reset and the input handlers that set intents.  *)
(*                                                                         *)
(* Modelling conventions                                                   *)
(*  - A direction vector is kept as its heading in whole degrees; (1, 0)   *)
(*    is heading 0.  A target point is kept relative to the unit that      *)
(*    committed it, as heading and length.                                 *)
(*  - Timers (Phaser delayedCall, window.setTimeout) are callbacks in      *)
(*    flight; they fire in any order.                                      *)
(*  - Positions belong to the physics engine; the planner reads them as an *)
(*    input of the call (a layout), as it reads its random draws.          *)
(*  - The map bot holds the units of the current game.  The units of an    *)
(*    earlier game are reachable only through draggingBot, and nothing     *)
(*    reads what a drag writes to them: such writes are dropped.           *)
(***************************************************************************)
EXTENDS Integers, Sequences, FiniteSets, TLC

\* ---- bounds -------------------------------------------------------------
\* player units created per game (the source creates 5)
PlayerSquadSize == 2
\* AI units created per game (the source creates 5)
AiSquadSize == 1
\* projectiles per shot (the source spawns 3)
BurstSize == 1
\* games started: resetGame runs at most this many times
MaxGames == 2

\* ---- program constants --------------------------------------------------
maxMoveDistance == 180
shootPreviewLength == 180
roundDurationMs == 2000
AI_SHOOT_RANGE_MULTIPLIER == 4
MoveDrawMin == 60
WiggleMin == 20
WiggleMax == 40
SweepStep == 15

NoBot == 0
Nil == <<>>
Some(x) == <<x>>

VARIABLES
    botIdCounter,      \* next id createBot hands out
    bot,               \* id -> Bot object, for the units of the current game
    bots,              \* all-units roster, sequence of ids
    playerBots,        \* player roster
    aiBots,            \* AI roster
    particles,         \* projectile id -> [ownerBot, active], the particle group
    isPlanning,
    winText,           \* [text, visible]; text "" while the object does not exist
    startDisabled,     \* startButton.disabled
    welcomeShown,      \* welcome box displayed (and the #ui panel hidden)
    roundTimers,       \* pending endRound callbacks: [cur, stale] counts
    welcomeTimers,     \* pending setTimeout callbacks of showWinMessage
    isDragging,
    draggingBot,
    draggingIndicator,
    dragStart          \* TRUE when a drag start point is set

vars == <<botIdCounter, bot, bots, playerBots, aiBots, particles, isPlanning,
          winText, startDisabled, welcomeShown, roundTimers, welcomeTimers,
          isDragging, draggingBot, draggingIndicator, dragStart>>

dragVars == <<isDragging, draggingBot, draggingIndicator, dragStart>>
rosterVars == <<bots, playerBots, aiBots>>

\* ---- helpers ------------------------------------------------------------
Range(s) == {s[i] : i \in 1..Len(s)}

RECURSIVE Filter(_, _)
Filter(s, keep) ==
    IF s = <<>> THEN <<>>
    ELSE IF Head(s) \in keep THEN <<Head(s)>> \o Filter(Tail(s), keep)
    ELSE Filter(Tail(s), keep)

Min(a, b) == IF a < b THEN a ELSE b

ZeroVelocity == [ang |-> 0, speed |-> 0]

\* { type: 'none', direction: (1, 0), distance: 0 }
NoneAction == [type |-> "none", direction |-> 0, distance |-> 0, target |-> Nil]

\* ids of the units created by the latest createBots
SquadSize == PlayerSquadSize + AiSquadSize
CurrentGen == {i \in 1..(botIdCounter - 1) : i >= botIdCounter - SquadSize}

\* position of a unit in its creation order: the players first, then the AI
Slot(b) == (b - 1) % SquadSize

\* ---- construction -------------------------------------------------------
Init ==
    /\ botIdCounter = 1
    /\ bot = [i \in {} |-> NoneAction]
    /\ bots = <<>>
    /\ playerBots = <<>>
    /\ aiBots = <<>>
    /\ particles = [i \in {} |-> 0]
    /\ isPlanning = TRUE
    /\ winText = [text |-> "", visible |-> FALSE]
    /\ startDisabled = FALSE
    /\ welcomeShown = TRUE
    /\ roundTimers = [cur |-> 0, stale |-> 0]
    /\ welcomeTimers = 0
    /\ isDragging = FALSE
    /\ draggingBot = NoBot
    /\ draggingIndicator = FALSE
    /\ dragStart = FALSE

\* mutant: a new unit starts with a Move of length 0 committed
createBot_WithIntent(playerId) ==
    [playerId |-> playerId,
     action |-> [type |-> "move", direction |-> 0, distance |-> 0, target |-> Nil],
     isAlive |-> TRUE,
     selectedMode |-> "move", plannedMove |-> Nil, plannedShoot |-> Nil,
     velocity |-> ZeroVelocity]

createBot(playerId) ==
    [playerId |-> playerId, action |-> NoneAction, isAlive |-> TRUE,
     selectedMode |-> "move", plannedMove |-> Nil, plannedShoot |-> Nil,
     velocity |-> ZeroVelocity]

\* the ids createBots hands out: the players first, then the AI
NewPlayerIds == [k \in 1..PlayerSquadSize |-> botIdCounter + k - 1]
\* mutant: the AI units are numbered from the counter's value again
NewAiIds_FromCounter == [k \in 1..AiSquadSize |-> botIdCounter + k - 1]

NewAiIds == [k \in 1..AiSquadSize |-> botIdCounter + PlayerSquadSize + k - 1]

\* mutant: the group is left as it is
clearParticles_KeepsGroup == particles

\* clearParticles: every child loses its owner and is destroyed, the group
\* is emptied
clearParticles == [i \in {} |-> 0]

\* mutant: the reset removes the pending round timer
resetGame_RemovesTimer ==
    LET newIds == Range(NewPlayerIds) \cup Range(NewAiIds)
    IN  /\ winText' = [winText EXCEPT !.visible = FALSE]
        /\ bot' = [i \in newIds |->
                      createBot(IF i \in Range(NewPlayerIds) THEN 1 ELSE 2)]
        /\ playerBots' = NewPlayerIds
        /\ aiBots' = NewAiIds
        /\ bots' = NewPlayerIds \o NewAiIds
        /\ botIdCounter' = botIdCounter + SquadSize
        /\ particles' = clearParticles
        /\ isPlanning' = TRUE
        /\ startDisabled' = FALSE
        /\ roundTimers' = [cur |-> 0, stale |-> roundTimers.stale]
        /\ UNCHANGED <<welcomeTimers, dragVars>>

resetGame ==
    LET newIds == Range(NewPlayerIds) \cup Range(NewAiIds)
    IN  /\ winText' = [winText EXCEPT !.visible = FALSE]
        /\ bot' = [i \in newIds |->
                      createBot(IF i \in Range(NewPlayerIds) THEN 1 ELSE 2)]
        /\ playerBots' = NewPlayerIds
        /\ aiBots' = NewAiIds
        /\ bots' = NewPlayerIds \o NewAiIds
        /\ botIdCounter' = botIdCounter + SquadSize
        /\ particles' = clearParticles
        /\ isPlanning' = TRUE
        /\ startDisabled' = FALSE
        \* nothing cancels the pending round timers: they are now stale
        /\ roundTimers' = [cur |-> 0, stale |-> roundTimers.stale + roundTimers.cur]
        /\ UNCHANGED <<welcomeTimers, dragVars>>

\* click on the welcome box's start button
StartGame ==
    /\ welcomeShown
    /\ botIdCounter + SquadSize <= SquadSize * MaxGames + 1
    /\ welcomeShown' = FALSE
    /\ resetGame

\* ---- hit / collision resolver -------------------------------------------
\* mutant: the projectile is destroyed with its owner still on record
destroyParticle_KeepsOwner(p) ==
    [particles EXCEPT ![p].active = FALSE]

\* delete particle.ownerBot; particle.destroy()
destroyParticle(p) ==
    [particles EXCEPT ![p] = [ownerBot |-> NoBot, active |-> FALSE]]

\* mutant: the filter keeps every unit
removeBot_KeepsAll(roster, b) == roster

\* this.bots.filter(b => b !== bot)
removeBot(roster, b) == Filter(roster, Range(roster) \ {b})

\* mutant: the player roster is tested first
checkWinCondition_LoseFirst(players, ais) ==
    IF Len(players) = 0 THEN "You lose!"
    ELSE IF Len(ais) = 0 THEN "You win!"
    ELSE ""

\* mutant: the empty player roster is not tested
checkWinCondition_NoLose(players, ais) ==
    IF Len(ais) = 0 THEN "You win!" ELSE ""

\* checkWinCondition: the message to show, "" for none
checkWinCondition(players, ais) ==
    IF Len(ais) = 0 THEN "You win!"
    ELSE IF Len(players) = 0 THEN "You lose!"
    ELSE ""

\* showWinMessage: text set and made visible, phase left, start button
\* disabled, and a 1800 ms timeout armed that brings the welcome box back
showWinMessage(msg) ==
    /\ winText' = [text |-> msg, visible |-> TRUE]
    /\ isPlanning' = FALSE
    /\ startDisabled' = TRUE
    /\ welcomeTimers' = welcomeTimers + 1

\* mutant: a projectile of the unit's own side is ignored too
hitIgnored_NoFriendlyFire(b, p) ==
    \/ ~bot[b].isAlive
    \/ particles[p].ownerBot = NoBot
    \/ particles[p].ownerBot = b
    \/ /\ particles[p].ownerBot \in DOMAIN bot
       /\ bot[particles[p].ownerBot].playerId = bot[b].playerId

\* mutant: the self-hit test is missing
hitIgnored_NoSelfTest(b, p) ==
    \/ ~bot[b].isAlive
    \/ particles[p].ownerBot = NoBot

\* the early returns of handleBotHit: dead unit, ownerless projectile,
\* projectile owned by the unit it overlaps
hitIgnored(b, p) ==
    \/ ~bot[b].isAlive
    \/ particles[p].ownerBot = NoBot
    \/ particles[p].ownerBot = b

\* mutant: the dead unit is filtered out of the all-units roster only
killBot_KeepsSideRoster(b, p) ==
    LET msg == checkWinCondition(playerBots, aiBots)
    IN  /\ bot' = [bot EXCEPT ![b].isAlive = FALSE,
                              ![b].velocity = ZeroVelocity]
        /\ particles' = IF particles[p].active THEN destroyParticle(p)
                        ELSE particles
        /\ bots' = removeBot(bots, b)
        /\ UNCHANGED <<playerBots, aiBots>>
        /\ IF msg # ""
           THEN showWinMessage(msg)
           ELSE UNCHANGED <<winText, isPlanning, startDisabled, welcomeTimers>>
        /\ UNCHANGED <<botIdCounter, welcomeShown, roundTimers, dragVars>>

\* the qualifying hit: the unit is marked dead and its body disabled (which
\* stops it), the projectile is destroyed, the unit leaves the rosters and
\* the win condition is checked
killBot(b, p) ==
    LET players == IF bot[b].playerId = 1 THEN removeBot(playerBots, b)
                   ELSE playerBots
        ais == IF bot[b].playerId = 1 THEN aiBots ELSE removeBot(aiBots, b)
        msg == checkWinCondition(players, ais)
    IN  /\ bot' = [bot EXCEPT ![b].isAlive = FALSE,
                              ![b].velocity = ZeroVelocity]
        /\ particles' = IF particles[p].active THEN destroyParticle(p)
                        ELSE particles
        /\ bots' = removeBot(bots, b)
        /\ playerBots' = players
        /\ aiBots' = ais
        /\ IF msg # ""
           THEN showWinMessage(msg)
           ELSE UNCHANGED <<winText, isPlanning, startDisabled, welcomeTimers>>
        /\ UNCHANGED <<botIdCounter, welcomeShown, roundTimers, dragVars>>

handleBotHit(b, p) ==
    IF hitIgnored(b, p) THEN UNCHANGED vars ELSE killBot(b, p)

\* mutant: every overlap is resolved as a qualifying hit
overlapCallback_Unguarded(p, b) == killBot(b, p)

\* the overlap callback of createParticles; p is the projectile's sprite, b
\* the unit whose sprite it overlaps (any sprite handed to the collider)
overlapCallback(p, b) ==
    IF particles[p].ownerBot = NoBot
    THEN UNCHANGED vars
    ELSE IF b \in Range(bots)
         THEN handleBotHit(b, p)
         ELSE UNCHANGED vars

ProjectileHitsBot ==
    \E p \in DOMAIN particles, b \in CurrentGen : overlapCallback(p, b)

\* mutant: a projectile that meets a barrier is stopped but keeps its owner
destroyBullet_KeepsOwner(p) ==
    /\ particles' = [particles EXCEPT ![p].active = FALSE]
    /\ UNCHANGED <<botIdCounter, bot, rosterVars, isPlanning, winText,
                   startDisabled, welcomeShown, roundTimers, welcomeTimers,
                   dragVars>>

\* destroyBullet, the projectile/barrier collider and overlap callback
destroyBullet(p) ==
    /\ particles' = IF particles[p].active THEN destroyParticle(p) ELSE particles
    /\ UNCHANGED <<botIdCounter, bot, rosterVars, isPlanning, winText,
                   startDisabled, welcomeShown, roundTimers, welcomeTimers,
                   dragVars>>

ProjectileHitsBarrier == \E p \in DOMAIN particles : destroyBullet(p)

\* the worldbounds handler for a projectile: destroyed without an active test;
\* only an enabled (live) body reports the event
worldBoundsParticle(p) ==
    /\ particles[p].active
    /\ particles' = destroyParticle(p)
    /\ UNCHANGED <<botIdCounter, bot, rosterVars, isPlanning, winText,
                   startDisabled, welcomeShown, roundTimers, welcomeTimers,
                   dragVars>>

ProjectileLeavesArena == \E p \in DOMAIN particles : worldBoundsParticle(p)

\* the worldbounds handler for a unit: sprite.setVelocity(0, 0); a dead
\* unit's body is disabled and reports nothing
worldBoundsBot(b) ==
    /\ bot[b].isAlive
    /\ bot[b].velocity # ZeroVelocity
    /\ bot' = [bot EXCEPT ![b].velocity = ZeroVelocity]
    /\ UNCHANGED <<botIdCounter, rosterVars, particles, isPlanning, winText,
                   startDisabled, welcomeShown, roundTimers, welcomeTimers,
                   dragVars>>

BotReachesArenaEdge == \E b \in CurrentGen : worldBoundsBot(b)

\* mutant: the expired projectile is destroyed with its owner on record
expireParticle_KeepsOwner(p) ==
    /\ particles' = [particles EXCEPT ![p].active = FALSE]
    /\ UNCHANGED <<botIdCounter, bot, rosterVars, isPlanning, winText,
                   startDisabled, welcomeShown, roundTimers, welcomeTimers,
                   dragVars>>

\* the delayedCall of spawnShot: the projectile's lifetime ran out.  The
\* callback of a projectile that is no longer active does nothing.
expireParticle(p) ==
    /\ particles' = IF particles[p].active THEN destroyParticle(p) ELSE particles
    /\ UNCHANGED <<botIdCounter, bot, rosterVars, isPlanning, winText,
                   startDisabled, welcomeShown, roundTimers, welcomeTimers,
                   dragVars>>

ProjectileExpires == \E p \in DOMAIN particles : expireParticle(p)

\* the setTimeout callback of showWinMessage: #ui hidden, welcome box shown
WelcomeTimeout ==
    /\ welcomeTimers > 0
    /\ welcomeTimers' = welcomeTimers - 1
    /\ welcomeShown' = TRUE
    /\ UNCHANGED <<botIdCounter, bot, rosterVars, particles, isPlanning,
                   winText, startDisabled, roundTimers, dragVars>>

\* ---- opposing-side planner (planAIActions.ts) ---------------------------
Slots == 0..(SquadSize - 1)
AiIndex == 0..(AiSquadSize - 1)

\* unit positions as the planner reads them, by creation slot
LayoutFar == [s \in Slots |->
    IF s < PlayerSquadSize THEN <<20 + 20 * s, 360>>
    ELSE <<1220 - 20 * (s - PlayerSquadSize), 360>>]
LayoutTie == [s \in Slots |->
    IF s < PlayerSquadSize THEN <<300 + 200 * (s % 2), 360>> ELSE <<400, 360>>]
LayoutOverlap == [s \in Slots |->
    IF s < PlayerSquadSize THEN <<60 * (s + 1), 360>>
    ELSE <<60 * (s - PlayerSquadSize + 1), 360>>]
\* the first player unit exactly 4 * shootPreviewLength from the first AI unit,
\* every other pair farther apart
LayoutEdge == [s \in Slots |->
    IF s < PlayerSquadSize THEN <<100 - 20 * s, 360>>
    ELSE <<100 + AI_SHOOT_RANGE_MULTIPLIER * shootPreviewLength
               + 20 * (s - PlayerSquadSize), 360>>]
Layouts == {LayoutFar, LayoutTie, LayoutOverlap, LayoutEdge}

\* the random draws and the obstacle tests of one planner call:
\*   coin[k]   Phaser.Math.Between(0, 1) for the AI unit of index k
\*   distance  Phaser.Math.Between(60, maxMoveDistance)
\*   blocked   the sweep offsets whose segment LineToRectangle reports as
\*             crossing some barrier
\*   wiggle    Phaser.Math.Between(0, 359) and Phaser.Math.Between(20, 40)
SweepOffsets == {SweepStep * i : i \in 0..(360 \div SweepStep - 1)}
Coins == {[k \in AiIndex |-> 0], [k \in AiIndex |-> 1], [k \in AiIndex |-> k % 2]}
MoveDraws == {MoveDrawMin, maxMoveDistance}
BlockedSets == {{}, {0, SweepStep}, SweepOffsets}
WiggleDraws == {[angle |-> 180, distance |-> WiggleMin],
                [angle |-> 45, distance |-> WiggleMax]}
PlanInputs ==
    [layout : {LayoutFar}, coin : Coins, distance : MoveDraws,
     blocked : {{}}, wiggle : {[angle |-> 180, distance |-> WiggleMin]}]
    \cup [layout : {LayoutTie}, coin : Coins, distance : {maxMoveDistance},
         blocked : {{0, SweepStep}}, wiggle : {[angle |-> 180, distance |-> WiggleMin]}]
    \cup [layout : {LayoutOverlap}, coin : Coins, distance : {MoveDrawMin},
         blocked : {SweepOffsets}, wiggle : WiggleDraws]
    \cup [layout : {LayoutTie}, coin : Coins, distance : {MoveDrawMin},
         blocked : {SweepOffsets}, wiggle : {[angle |-> 180, distance |-> WiggleMin]}]
    \cup [layout : {LayoutEdge}, coin : Coins, distance : {MoveDrawMin},
         blocked : {{}}, wiggle : {[angle |-> 180, distance |-> WiggleMin]}]

\* squared Phaser.Math.Distance.Between; distances are only compared, and
\* the square preserves the order
Dist2(a, b) == (a[1] - b[1]) * (a[1] - b[1]) + (a[2] - b[2]) * (a[2] - b[2])

\* mutant: a zero difference vector is normalised as it is and has no
\* heading (-1)
Heading_KeepsZero(from, to) ==
    LET dx == to[1] - from[1]
        dy == to[2] - from[2]
    IN  IF dx = 0 /\ dy = 0 THEN -1
        ELSE IF dy = 0 THEN (IF dx > 0 THEN 0 ELSE 180)
        ELSE IF dx = 0 THEN (IF dy > 0 THEN 90 ELSE 270)
        ELSE IF dx > 0 THEN (IF dy > 0 THEN 45 ELSE 315)
        ELSE (IF dy > 0 THEN 135 ELSE 225)

\* heading of the normalised difference vector; (1, 0) when it is zero
Heading(from, to) ==
    LET dx == to[1] - from[1]
        dy == to[2] - from[2]
    IN  IF dx = 0 /\ dy = 0 THEN 0
        ELSE IF dy = 0 THEN (IF dx > 0 THEN 0 ELSE 180)
        ELSE IF dx = 0 THEN (IF dy > 0 THEN 90 ELSE 270)
        ELSE IF dx > 0 THEN (IF dy > 0 THEN 45 ELSE 315)
        ELSE (IF dy > 0 THEN 135 ELSE 225)

\* mutant: the minimum search takes an enemy at an equal distance (d <= minDist)
RECURSIVE closestEnemy_LastWins(_, _, _, _)
closestEnemy_LastWins(pos, enemies, layout, best) ==
    IF enemies = <<>> THEN best
    ELSE LET e == Head(enemies)
             better == \/ best = NoBot
                       \/ Dist2(pos, layout[Slot(e)]) <= Dist2(pos, layout[Slot(best)])
         IN  closestEnemy_LastWins(pos, Tail(enemies), layout,
                                   IF better THEN e ELSE best)

\* the minimum search: the first enemy at the least distance (d < minDist)
RECURSIVE closestEnemy(_, _, _, _)
closestEnemy(pos, enemies, layout, best) ==
    IF enemies = <<>> THEN best
    ELSE LET e == Head(enemies)
             better == \/ best = NoBot
                       \/ Dist2(pos, layout[Slot(e)]) < Dist2(pos, layout[Slot(best)])
         IN  closestEnemy(pos, Tail(enemies), layout, IF better THEN e ELSE best)

\* mutant: the sweep keeps the last clear offset it meets
firstClear_KeepsLast(blocked) ==
    IF SweepOffsets \subseteq blocked THEN -1
    ELSE CHOOSE a \in SweepOffsets \ blocked :
             \A c \in SweepOffsets \ blocked : a >= c

\* the first sweep offset (0, 15, ...) whose segment is clear, -1 if none
firstClear(blocked) ==
    IF SweepOffsets \subseteq blocked THEN -1
    ELSE CHOOSE a \in SweepOffsets \ blocked :
             \A c \in SweepOffsets \ blocked : a <= c

\* mutant: without a target the unit wiggles away
planOne_NoTargetTest(b, enemies, in) ==
    LET pos == in.layout[Slot(b)]
        target == closestEnemy(pos, enemies, in.layout, NoBot)
        minDist2 == Dist2(pos, in.layout[Slot(target)])
        direction == Heading(pos, in.layout[Slot(target)])
        range == shootPreviewLength * AI_SHOOT_RANGE_MULTIPLIER
        offset == firstClear(in.blocked)
    IN  IF target # NoBot /\ minDist2 <= range * range
                          /\ in.coin[Slot(b) - PlayerSquadSize] = 0
        THEN [type |-> "shoot", direction |-> direction, distance |-> 0,
              target |-> Nil]
        ELSE IF target # NoBot /\ offset >= 0
        THEN [type |-> "move", direction |-> (direction + offset) % 360,
              distance |-> in.distance, target |-> Nil]
        ELSE [type |-> "move", direction |-> in.wiggle.angle,
              distance |-> in.wiggle.distance, target |-> Nil]

\* mutant: the coin alone decides, at any distance
planOne_NoRangeTest(b, enemies, in) ==
    LET pos == in.layout[Slot(b)]
        target == closestEnemy(pos, enemies, in.layout, NoBot)
        direction == Heading(pos, in.layout[Slot(target)])
        offset == firstClear(in.blocked)
    IN  IF target = NoBot THEN bot[b].action
        ELSE IF in.coin[Slot(b) - PlayerSquadSize] = 0
        THEN [type |-> "shoot", direction |-> direction, distance |-> 0,
              target |-> Nil]
        ELSE IF offset >= 0
        THEN [type |-> "move", direction |-> (direction + offset) % 360,
              distance |-> in.distance, target |-> Nil]
        ELSE [type |-> "move", direction |-> in.wiggle.angle,
              distance |-> in.wiggle.distance, target |-> Nil]

\* mutant: the wiggle keeps the distance drawn for the sweep
planOne_WiggleKeepsDistance(b, enemies, in) ==
    LET pos == in.layout[Slot(b)]
        target == closestEnemy(pos, enemies, in.layout, NoBot)
        minDist2 == Dist2(pos, in.layout[Slot(target)])
        direction == Heading(pos, in.layout[Slot(target)])
        range == shootPreviewLength * AI_SHOOT_RANGE_MULTIPLIER
        offset == firstClear(in.blocked)
    IN  IF target = NoBot THEN bot[b].action
        ELSE IF minDist2 <= range * range /\ in.coin[Slot(b) - PlayerSquadSize] = 0
        THEN [type |-> "shoot", direction |-> direction, distance |-> 0,
              target |-> Nil]
        ELSE IF offset >= 0
        THEN [type |-> "move", direction |-> (direction + offset) % 360,
              distance |-> in.distance, target |-> Nil]
        ELSE [type |-> "move", direction |-> in.wiggle.angle,
              distance |-> in.distance, target |-> Nil]

\* mutant: with every swept segment blocked the unit keeps its intent
planOne_NoWiggle(b, enemies, in) ==
    LET pos == in.layout[Slot(b)]
        target == closestEnemy(pos, enemies, in.layout, NoBot)
        minDist2 == Dist2(pos, in.layout[Slot(target)])
        direction == Heading(pos, in.layout[Slot(target)])
        range == shootPreviewLength * AI_SHOOT_RANGE_MULTIPLIER
        offset == firstClear(in.blocked)
    IN  IF target = NoBot THEN bot[b].action
        ELSE IF minDist2 <= range * range /\ in.coin[Slot(b) - PlayerSquadSize] = 0
        THEN [type |-> "shoot", direction |-> direction, distance |-> 0,
              target |-> Nil]
        ELSE IF offset >= 0
        THEN [type |-> "move", direction |-> (direction + offset) % 360,
              distance |-> in.distance, target |-> Nil]
        ELSE bot[b].action

\* the intent the planner commits for AI unit b; its present one when there
\* is no enemy
planOne(b, enemies, in) ==
    LET pos == in.layout[Slot(b)]
        target == closestEnemy(pos, enemies, in.layout, NoBot)
        minDist2 == Dist2(pos, in.layout[Slot(target)])
        direction == Heading(pos, in.layout[Slot(target)])
        range == shootPreviewLength * AI_SHOOT_RANGE_MULTIPLIER
        offset == firstClear(in.blocked)
    IN  IF target = NoBot THEN bot[b].action
        ELSE IF minDist2 <= range * range /\ in.coin[Slot(b) - PlayerSquadSize] = 0
        THEN [type |-> "shoot", direction |-> direction, distance |-> 0,
              target |-> Nil]
        ELSE IF offset >= 0
        THEN [type |-> "move", direction |-> (direction + offset) % 360,
              distance |-> in.distance, target |-> Nil]
        ELSE [type |-> "move", direction |-> in.wiggle.angle,
              distance |-> in.wiggle.distance, target |-> Nil]

\* mutant: the call also resets the intent of every unit it does not plan
planAiActions_ResetsOthers(botMap, enemies, ais, in) ==
    [i \in DOMAIN botMap |->
        IF i \in Range(ais)
        THEN [botMap[i] EXCEPT !.action = planOne(i, enemies, in)]
        ELSE [botMap[i] EXCEPT !.action = NoneAction]]

planAiActions(botMap, enemies, ais, in) ==
    [i \in DOMAIN botMap |->
        IF i \in Range(ais)
        THEN [botMap[i] EXCEPT !.action = planOne(i, enemies, in)]
        ELSE botMap[i]]

\* ---- round executor -----------------------------------------------------
PoolMax == 200

\* the velocity executeActions gives a unit; its present one unless it moves
moveVelocity(b, botMap) ==
    LET a == botMap[b].action
        speed == a.distance \div (roundDurationMs \div 1000)
    IN  IF a.type = "move"
        THEN (IF speed = 0 THEN ZeroVelocity
              ELSE [ang |-> a.direction, speed |-> speed])
        ELSE botMap[b].velocity

\* spawnShot: up to BurstSize projectiles owned by b, while the pool has room
spawnShot(parts, b) ==
    LET room == PoolMax - Cardinality(DOMAIN parts)
        n == IF room < 0 THEN 0 ELSE Min(BurstSize, room)
        new == {<<b, k>> : k \in 1..n}
    IN  [p \in DOMAIN parts \cup new |->
            IF p \in new THEN [ownerBot |-> b, active |-> TRUE] ELSE parts[p]]

\* mutant: every unit of the roster fires, whatever its intent
RECURSIVE spawnAll_IgnoresType(_, _, _)
spawnAll_IgnoresType(parts, roster, botMap) ==
    IF roster = <<>> THEN parts
    ELSE spawnAll_IgnoresType(spawnShot(parts, Head(roster)), Tail(roster), botMap)

RECURSIVE spawnAll(_, _, _)
spawnAll(parts, roster, botMap) ==
    IF roster = <<>> THEN parts
    ELSE spawnAll(IF botMap[Head(roster)].action.type = "shoot"
                  THEN spawnShot(parts, Head(roster)) ELSE parts,
                  Tail(roster), botMap)

executeActions(botMap, roster) ==
    [i \in DOMAIN botMap |->
        IF i \in Range(roster)
        THEN [botMap[i] EXCEPT !.velocity = moveVelocity(i, botMap)]
        ELSE botMap[i]]

\* mutant: the round start leaves the phase Planning
startRound_StaysPlanning(in) ==
    LET planned == planAiActions(bot, playerBots, aiBots, in)
    IN  /\ isPlanning' = isPlanning
        /\ bot' = executeActions(planned, bots)
        /\ particles' = spawnAll(particles, bots, planned)
        /\ startDisabled' = TRUE
        /\ roundTimers' = [roundTimers EXCEPT !.cur = @ + 1]
        /\ UNCHANGED <<botIdCounter, rosterVars, winText, welcomeShown,
                       welcomeTimers, dragVars>>

startRound(in) ==
    LET planned == planAiActions(bot, playerBots, aiBots, in)
    IN  /\ isPlanning' = FALSE
        /\ bot' = executeActions(planned, bots)
        /\ particles' = spawnAll(particles, bots, planned)
        /\ startDisabled' = TRUE
        /\ roundTimers' = [roundTimers EXCEPT !.cur = @ + 1]
        /\ UNCHANGED <<botIdCounter, rosterVars, winText, welcomeShown,
                       welcomeTimers, dragVars>>

\* mutant: round-end leaves the committed intent in place
endRoundBots_KeepsAction(botMap, roster) ==
    [i \in DOMAIN botMap |->
        IF i \in Range(roster) /\ botMap[i].isAlive
        THEN [botMap[i] EXCEPT !.velocity = ZeroVelocity,
                               !.plannedMove = Nil,
                               !.plannedShoot = Nil]
        ELSE botMap[i]]

\* mutant: round-end leaves the remembered shoot intent in place
endRoundBots_KeepsShootSlot(botMap, roster) ==
    [i \in DOMAIN botMap |->
        IF i \in Range(roster) /\ botMap[i].isAlive
        THEN [botMap[i] EXCEPT !.velocity = ZeroVelocity,
                               !.action = NoneAction,
                               !.plannedMove = Nil]
        ELSE botMap[i]]

\* the units endRound resets: those of the all-units roster
endRoundBots(botMap, roster) ==
    [i \in DOMAIN botMap |->
        IF i \in Range(roster) /\ botMap[i].isAlive
        THEN [botMap[i] EXCEPT !.velocity = ZeroVelocity,
                               !.action = NoneAction,
                               !.plannedMove = Nil,
                               !.plannedShoot = Nil]
        ELSE botMap[i]]

\* mutant: round-end leaves the projectiles in the group
endRound_KeepsParticles ==
    /\ isPlanning' = TRUE
    /\ bot' = endRoundBots(bot, bots)
    /\ particles' = particles
    /\ startDisabled' = ~isPlanning'
    /\ UNCHANGED <<botIdCounter, rosterVars, winText, welcomeShown,
                   welcomeTimers, dragVars>>

\* mutant: round-end leaves the phase as it is
endRound_KeepsPhase ==
    /\ isPlanning' = isPlanning
    /\ bot' = endRoundBots(bot, bots)
    /\ particles' = clearParticles
    /\ startDisabled' = ~isPlanning'
    /\ UNCHANGED <<botIdCounter, rosterVars, winText, welcomeShown,
                   welcomeTimers, dragVars>>

endRound ==
    /\ isPlanning' = TRUE
    /\ bot' = endRoundBots(bot, bots)
    /\ particles' = clearParticles
    /\ startDisabled' = ~isPlanning'
    /\ UNCHANGED <<botIdCounter, rosterVars, winText, welcomeShown,
                   welcomeTimers, dragVars>>

\* a pending round timer fires; kind tells whether it was armed in the
\* current game or before the latest reset
RoundTimerFires(kind) ==
    /\ roundTimers[kind] > 0
    /\ roundTimers' = [roundTimers EXCEPT ![kind] = @ - 1]
    /\ endRound

RoundTimer == \E kind \in {"cur", "stale"} : RoundTimerFires(kind)

\* click on the start-round button; the button takes clicks while the #ui
\* panel is displayed and the button is enabled
StartClick ==
    /\ ~welcomeShown
    /\ ~startDisabled
    /\ IF ~isPlanning THEN UNCHANGED vars
       ELSE \E in \in PlanInputs : startRound(in)

\* keydown of Space or Enter
KeyDown ==
    /\ botIdCounter > 1      \* registered by setupInput, first run by resetGame
    /\ IF ~isPlanning \/ startDisabled THEN UNCHANGED vars
       ELSE \E in \in PlanInputs : startRound(in)

\* ---- player input (setupInput) ------------------------------------------
\* pointer positions, relative to the unit the gesture is about: heading and
\* distance from the unit's centre (len 0: exactly on it)
Pointers == {[angle |-> 0, len |-> 0], [angle |-> 90, len |-> 300]}

\* direction.lengthSq() === 0 ? (1, 0) : normalised difference
pointerDirection(ptr) == IF ptr.len = 0 THEN 0 ELSE ptr.angle

\* mutant: the drag distance is not clamped to maxMoveDistance
applyDragAction_NoClamp(b, ptr) ==
    LET direction == pointerDirection(ptr)
        distance == ptr.len
        move == [type |-> "move", direction |-> direction, distance |-> distance,
                 target |-> Some([angle |-> direction, len |-> distance])]
        shoot == [type |-> "shoot", direction |-> direction, distance |-> 0,
                  target |-> Some([angle |-> direction, len |-> shootPreviewLength])]
    IN  IF b.selectedMode = "move"
        THEN [b EXCEPT !.action = move, !.plannedMove = Some(move)]
        ELSE [b EXCEPT !.action = shoot, !.plannedShoot = Some(shoot)]

\* the Bot after applyDragAction; the indicator branch and the plain branch
\* compute the same intent from the unit's position and the pointer
applyDragAction(b, ptr) ==
    LET direction == pointerDirection(ptr)
        distance == Min(maxMoveDistance, ptr.len)
        move == [type |-> "move", direction |-> direction, distance |-> distance,
                 target |-> Some([angle |-> direction, len |-> distance])]
        shoot == [type |-> "shoot", direction |-> direction, distance |-> 0,
                  target |-> Some([angle |-> direction, len |-> shootPreviewLength])]
    IN  IF b.selectedMode = "move"
        THEN [b EXCEPT !.action = move, !.plannedMove = Some(move)]
        ELSE [b EXCEPT !.action = shoot, !.plannedShoot = Some(shoot)]

\* mutant: the remembered intent of the mode is not looked up
syncActionWithMode_NoRestore(b) ==
    LET baseDirection == b.action.direction
        fallbackLen == IF b.action.target # Nil THEN b.action.target[1].len
                       ELSE maxMoveDistance
        distance == Min(maxMoveDistance, fallbackLen)
        move == [type |-> "move", direction |-> baseDirection, distance |-> distance,
                 target |-> Some([angle |-> baseDirection, len |-> distance])]
        shoot == [type |-> "shoot", direction |-> baseDirection, distance |-> 0,
                  target |-> Some([angle |-> baseDirection, len |-> shootPreviewLength])]
    IN  IF b.selectedMode = "move"
        THEN [b EXCEPT !.action = move, !.plannedMove = Some(move)]
        ELSE [b EXCEPT !.action = shoot, !.plannedShoot = Some(shoot)]

\* the Bot after syncActionWithMode
syncActionWithMode(b) ==
    LET planned == IF b.selectedMode = "move" THEN b.plannedMove ELSE b.plannedShoot
        baseDirection == b.action.direction
        fallbackLen == IF b.action.target # Nil THEN b.action.target[1].len
                       ELSE maxMoveDistance
        distance == Min(maxMoveDistance, fallbackLen)
        move == [type |-> "move", direction |-> baseDirection, distance |-> distance,
                 target |-> Some([angle |-> baseDirection, len |-> distance])]
        shoot == [type |-> "shoot", direction |-> baseDirection, distance |-> 0,
                  target |-> Some([angle |-> baseDirection, len |-> shootPreviewLength])]
    IN  IF planned # Nil THEN [b EXCEPT !.action = planned[1]]
        ELSE IF b.selectedMode = "move"
        THEN [b EXCEPT !.action = move, !.plannedMove = Some(move)]
        ELSE [b EXCEPT !.action = shoot, !.plannedShoot = Some(shoot)]

\* mutant: the mode is switched and the intent is left as it is
toggleBotMode_NoSync(b) ==
    [b EXCEPT !.selectedMode = IF @ = "move" THEN "shoot" ELSE "move"]

\* the Bot after toggleBotMode
toggleBotMode(b) ==
    syncActionWithMode(
        [b EXCEPT !.selectedMode = IF @ = "move" THEN "shoot" ELSE "move"])

\* the units the pointer lands on, by creation slot
TouchSlots == {0}
Touchable == {b \in DOMAIN bot : Slot(b) \in TouchSlots}

\* getPlayerBotAt: a live unit of the player roster near the pointer, if any
playerBotsAt == {b \in Range(playerBots) \cap Touchable : bot[b].isAlive}

\* getIndicatorAt: a live unit of the player roster whose committed intent is
\* of its selected mode and has a target, if the pointer is on its indicator
indicatorsAt ==
    {b \in Range(playerBots) \cap Touchable :
        /\ bot[b].isAlive
        /\ bot[b].action.type = bot[b].selectedMode
        /\ bot[b].action.target # Nil}

pointerdown(indicatorHit, hitBot) ==
    IF ~isPlanning THEN UNCHANGED vars
    ELSE IF indicatorHit # NoBot
    THEN /\ isDragging' = TRUE
         /\ draggingBot' = indicatorHit
         /\ draggingIndicator' = TRUE
         /\ dragStart' = TRUE
         /\ UNCHANGED <<botIdCounter, bot, rosterVars, particles, isPlanning, winText,
                        startDisabled, welcomeShown, roundTimers, welcomeTimers>>
    ELSE IF hitBot # NoBot
    THEN /\ isDragging' = TRUE
         /\ draggingBot' = hitBot
         /\ draggingIndicator' = FALSE
         /\ dragStart' = TRUE
         /\ UNCHANGED <<botIdCounter, bot, rosterVars, particles, isPlanning, winText,
                        startDisabled, welcomeShown, roundTimers, welcomeTimers>>
    ELSE UNCHANGED vars

PointerDown ==
    /\ botIdCounter > 1
    /\ \E indicatorHit \in indicatorsAt \cup {NoBot}, hitBot \in playerBotsAt \cup {NoBot} :
           pointerdown(indicatorHit, hitBot)

\* far: the pointer is 6 or more away from the drag start
pointermove(ptr, far) ==
    IF ~isPlanning \/ ~isDragging \/ draggingBot = NoBot \/ ~dragStart
    THEN UNCHANGED vars
    ELSE IF far \/ draggingIndicator
    THEN /\ bot' = IF draggingBot \in DOMAIN bot
                   THEN [bot EXCEPT ![draggingBot] = applyDragAction(@, ptr)]
                   ELSE bot
         /\ UNCHANGED <<botIdCounter, rosterVars, particles, isPlanning, winText,
                        startDisabled, welcomeShown, roundTimers, welcomeTimers,
                        dragVars>>
    ELSE UNCHANGED vars

PointerMove ==
    /\ botIdCounter > 1
    /\ \E ptr \in Pointers, far \in BOOLEAN : pointermove(ptr, far)

\* wasTap: the pointer is less than 6 away from the drag start; tappedBot:
\* what getPlayerBotAt finds under the pointer
pointerup(wasTap, tappedBot) ==
    IF ~isPlanning THEN UNCHANGED vars
    ELSE LET toggles == /\ isDragging /\ dragStart
                        /\ wasTap /\ ~draggingIndicator
                        /\ tappedBot # NoBot /\ bot[tappedBot].isAlive
             toggled == IF toggles
                        THEN [bot EXCEPT ![tappedBot] = toggleBotMode(@)]
                        ELSE bot
         IN  /\ bot' = toggled
             /\ isDragging' = FALSE
             /\ draggingBot' = NoBot
             /\ dragStart' = FALSE
             /\ draggingIndicator' = FALSE
             /\ UNCHANGED <<botIdCounter, rosterVars, particles, isPlanning,
                            winText, startDisabled, welcomeShown, roundTimers,
                            welcomeTimers>>

PointerUp ==
    /\ botIdCounter > 1
    /\ \E wasTap \in BOOLEAN, tappedBot \in playerBotsAt \cup {NoBot} :
           pointerup(wasTap, tappedBot)

\* ---- vocabulary of the properties ---------------------------------------
\* a win condition has been detected in the current game
GameOver == winText.visible

\* the unit's intent and its two remembered-intent slots
Intent(r) == <<r.action, r.plannedMove, r.plannedShoot>>

\* the units that exist before and after a step
Surviving == DOMAIN bot \cap DOMAIN bot'

\* the step kills unit b
Killed(b) == b \in Surviving /\ bot[b].isAlive /\ ~bot'[b].isAlive

SomeDead == \E b \in DOMAIN bot : ~bot[b].isAlive
BothRostersFilled == Len(playerBots) > 0 /\ Len(aiBots) > 0

\* an input event: pointer, start-round click, key
InputEvent == PointerDown \/ PointerMove \/ PointerUp \/ StartClick \/ KeyDown

Next ==
    \/ StartGame
    \/ StartClick
    \/ KeyDown
    \/ RoundTimer
    \/ ProjectileHitsBot
    \/ ProjectileHitsBarrier
    \/ ProjectileLeavesArena
    \/ ProjectileExpires
    \/ BotReachesArenaEdge
    \/ WelcomeTimeout
    \/ PointerDown
    \/ PointerMove
    \/ PointerUp

Spec == Init /\ [][Next]_vars

\* the Phaser clock of the scene is never paused: a pending delayedCall is
\* run once its delay has passed
FairSpec ==
    /\ Spec
    /\ WF_vars(RoundTimerFires("cur"))
    /\ WF_vars(RoundTimerFires("stale"))

\* ---- properties ----------------------------------------------------------
\* C1: once a win condition has been detected, a round timer that fires
\* changes neither the phase nor any unit's intent, remembered slots or
\* velocity.
C1_TimerNoOpAfterGameOver ==
    [][(GameOver /\ RoundTimer) =>
          /\ isPlanning' = isPlanning
          /\ \A b \in Surviving :
                 /\ Intent(bot'[b]) = Intent(bot[b])
                 /\ bot'[b].velocity = bot[b].velocity]_vars

\* C2: from the detection of a win condition until a reset, no input event
\* changes a unit's intent or mode, and none starts a round.
C2_NoInputAfterGameOver ==
    [][(GameOver /\ InputEvent) =>
          /\ \A b \in Surviving :
                 /\ Intent(bot'[b]) = Intent(bot[b])
                 /\ bot'[b].selectedMode = bot[b].selectedMode
          /\ UNCHANGED <<roundTimers, particles, isPlanning>>]_vars

\* C3: a round timer armed before the latest resetGame does not run round-end
\* on the new world: it flips no phase, clears no intent or slot, zeroes no
\* velocity and destroys no projectile.
C3_ResetInvalidatesRoundTimer ==
    [][RoundTimerFires("stale") => UNCHANGED <<isPlanning, bot, particles>>]_vars

\* C4: after a unit has been marked dead, its intent and its remembered-intent
\* slots never change again.
C4_DeadUnitKeepsIntent ==
    [][\A b \in Surviving :
          ~bot[b].isAlive => Intent(bot'[b]) = Intent(bot[b])]_vars

\* C5: a dead unit is in no roster, and no step (no later executor run) gives
\* it a velocity or spawns a projectile it owns.
DeadUnitsOffRosters ==
    \A b \in DOMAIN bot :
        ~bot[b].isAlive =>
            b \notin Range(bots) \cup Range(playerBots) \cup Range(aiBots)

C5_DeadUnitRetired ==
    /\ []DeadUnitsOffRosters
    /\ [][\A b \in Surviving :
            ~bot[b].isAlive =>
                /\ bot'[b].velocity = bot[b].velocity
                /\ \A p \in DOMAIN particles' \ DOMAIN particles :
                       particles'[p].ownerBot # b]_vars

\* a unit died in an earlier round and the executor has just run again
C5_Witness ==
    /\ SomeDead
    /\ DOMAIN particles # {}
    /\ \A p \in DOMAIN particles : particles[p].active

\* C6: an overlap between a projectile and the unit that owns it leaves the
\* unit alive and the rosters as they are, and whenever a unit dies no
\* projectile it owns is the one that the step destroyed.
C6_SelfHitSuppressed ==
    [][/\ \A p \in DOMAIN particles, b \in CurrentGen :
             (particles[p].ownerBot = b /\ overlapCallback(p, b)) =>
                 /\ bot'[b].isAlive = bot[b].isAlive
                 /\ UNCHANGED rosterVars
       /\ \A b \in Surviving :
             Killed(b) =>
                 \A p \in DOMAIN particles :
                     particles[p].ownerBot = b => particles'[p] = particles[p]]_vars

\* a live unit with a live projectile of its own: the self-overlap can occur
C6_Witness ==
    \E p \in DOMAIN particles :
        /\ particles[p].active
        /\ particles[p].ownerBot \in Range(bots)
        /\ bot[particles[p].ownerBot].isAlive

\* C7: a projectile-hits-unit event for a unit that is already dead, or for a
\* projectile with no owner on record, changes nothing: rosters, alive
\* flags, projectiles, phase, message and its pending timeout stay as they are.
C7_HitOnDeadOrOwnerlessIsNoOp ==
    [][\A p \in DOMAIN particles, b \in CurrentGen :
          ((~bot[b].isAlive \/ particles[p].ownerBot = NoBot)
              /\ overlapCallback(p, b)) => UNCHANGED vars]_vars

\* a dead unit, a live projectile and an ownerless one exist together
C7_Witness ==
    /\ SomeDead
    /\ \E p \in DOMAIN particles : particles[p].active
    /\ \E p \in DOMAIN particles : particles[p].ownerBot = NoBot

\* C8: once the units exist, at least one of the two side rosters is
\* non-empty.
C8_NeverBothRostersEmpty ==
    botIdCounter > 1 => (Len(playerBots) > 0 \/ Len(aiBots) > 0)

\* C9: the step that kills a unit shows "You win!" when it leaves the AI
\* roster empty, "You lose!" when it leaves the player roster empty and the
\* AI roster not, and in both cases leaves the phase other than Planning.
C9_WinCheckAfterKill ==
    [][\A b \in Surviving :
          Killed(b) =>
              /\ Len(aiBots') = 0 =>
                     /\ winText' = [text |-> "You win!", visible |-> TRUE]
                     /\ ~isPlanning'
              /\ (Len(playerBots') = 0 /\ Len(aiBots') > 0) =>
                     /\ winText' = [text |-> "You lose!", visible |-> TRUE]
                     /\ ~isPlanning']_vars

\* the last player unit was killed while an AI unit lives
C9_Witness ==
    /\ Len(playerBots) = 0
    /\ Len(aiBots) > 0
    /\ winText = [text |-> "You lose!", visible |-> TRUE]

\* C10: a kill that leaves both rosters non-empty shows no message, and when
\* the round timer then fires with both rosters still non-empty the phase is
\* Planning and still no message is shown.
C10_PlanningAfterSurvivableKill ==
    [][/\ \A b \in Surviving :
             (Killed(b) /\ BothRostersFilled') => ~winText'.visible
       /\ (SomeDead /\ BothRostersFilled /\ RoundTimer) =>
             (isPlanning' /\ ~winText'.visible)]_vars

\* back in Planning after a round in which a unit died and both sides live on
C10_Witness ==
    /\ isPlanning
    /\ SomeDead
    /\ BothRostersFilled
    /\ ~winText.visible
    /\ roundTimers.cur = 0

\* the reset state of a unit's intent: None, no remembered move, no
\* remembered shot
ClearedIntent == <<NoneAction, Nil, Nil>>

\* C11: right after round-end, every unit of the all-units roster has intent
\* None and both remembered-intent slots cleared.
C11_RoundEndClearsIntents ==
    [][RoundTimer =>
          \A b \in Range(bots') : Intent(bot'[b]) = ClearedIntent]_vars

\* a round in which a player unit was shot has ended: the AI unit that held
\* the Shoot intent is back to None, in Planning, with no game over
C11_Witness ==
    /\ isPlanning
    /\ ~GameOver
    /\ Len(playerBots) > 0
    /\ Len(playerBots) < PlayerSquadSize
    /\ Len(aiBots) > 0
    /\ \A b \in Range(bots) : Intent(bot[b]) = ClearedIntent

RoundStarts == roundTimers'.cur = roundTimers.cur + 1

\* a round of the current game has been started and its round-end has not
\* run yet
RoundExecuting == roundTimers.cur > 0

\* C13: the step that starts a round applies the intents as they are after
\* the planner's call (every moving unit gets the velocity of its final
\* intent, every shooting unit a projectile), and from then until that
\* round's round-end no unit's intent changes.
C13_NoInterleave ==
    [][/\ RoundStarts =>
             \A b \in Range(bots) :
                 /\ bot'[b].velocity = moveVelocity(b, bot')
                 /\ bot'[b].action.type = "shoot" =>
                        \E p \in DOMAIN particles' : particles'[p].ownerBot = b
       /\ (RoundExecuting /\ ~RoundTimerFires("cur")) =>
             \A b \in Surviving : bot'[b].action = bot[b].action]_vars

\* the round timers armed and not yet fired
PendingRoundTimers == roundTimers.cur + roundTimers.stale

\* C14: no step takes a pending round timer away except its own firing, which
\* runs round-end; and whenever the phase is not Planning (a round has been
\* started) it is eventually Planning again.
C14_RoundTimerResolves ==
    /\ [][PendingRoundTimers' < PendingRoundTimers =>
             (RoundTimer /\ PendingRoundTimers' = PendingRoundTimers - 1)]_vars
    /\ [](~isPlanning => roundTimers.cur > 0)
    /\ (~isPlanning ~> isPlanning)

\* a round of the new game is executing while a timer armed before the reset
\* is still pending: the reset did not cancel it
C14_Witness ==
    /\ roundTimers.stale > 0
    /\ roundTimers.cur > 0
    /\ ~isPlanning

\* C15: a planner call with an empty friendlies list leaves every hostile
\* unit's intent as it was, whatever that intent is, and so does the round
\* start that makes the call with the player roster empty.
C15_NoFriendliesNoOp ==
    /\ [](\A in \in PlanInputs : planAiActions(bot, <<>>, aiBots, in) = bot)
    /\ [][(RoundStarts /\ Len(playerBots) = 0) =>
             \A b \in Range(aiBots) : bot'[b].action = bot[b].action]_vars

\* a round was started after "You lose!": the planner ran with no player
\* unit left and the AI units still hold None
C15_Witness ==
    /\ Len(playerBots) = 0
    /\ Len(aiBots) > 0
    /\ ~isPlanning
    /\ RoundExecuting
    /\ \A b \in Range(aiBots) : bot[b].action = NoneAction

\* C16: a planner call with a non-empty friendlies list gives every hostile
\* unit a Shoot or a Move intent, whatever the draws and the blocked
\* segments, and so does the round start that makes the call.
C16_HostilesAlwaysPlan ==
    /\ [](Len(playerBots) > 0 =>
             \A in \in PlanInputs, b \in Range(aiBots) :
                 planOne(b, playerBots, in).type \in {"shoot", "move"})
    /\ [][(RoundStarts /\ Len(playerBots) > 0) =>
             \A b \in Range(aiBots') :
                 bot'[b].action.type \in {"shoot", "move"}]_vars

\* a round is executing in which an AI unit found every swept segment
\* blocked and holds the wiggle Move
C16_Witness ==
    /\ RoundExecuting
    /\ ~isPlanning
    /\ BothRostersFilled
    /\ \E b \in Range(aiBots) :
           /\ bot[b].action.type = "move"
           /\ bot[b].action.distance <= WiggleMax

\* position of x in the list s
IndexIn(s, x) == CHOOSE i \in 1..Len(s) : s[i] = x

\* C17: the target the planner picks for a hostile unit is a friendly at the
\* least distance from it, and the first of the friendlies list among those
\* at that distance.
C17_ClosestFirstTarget ==
    \A layout \in Layouts, b \in Range(aiBots) :
        Len(playerBots) > 0 =>
            LET pos == layout[Slot(b)]
                t == closestEnemy(pos, playerBots, layout, NoBot)
                d(e) == Dist2(pos, layout[Slot(e)])
            IN  /\ t \in Range(playerBots)
                /\ \A i \in 1..Len(playerBots) :
                       /\ d(t) <= d(playerBots[i])
                       /\ d(playerBots[i]) = d(t) => IndexIn(playerBots, t) <= i

\* a round is executing in which the AI unit, midway between the two player
\* units, shoots at the first of them
C17_Witness ==
    /\ RoundExecuting
    /\ Len(playerBots) = PlayerSquadSize
    /\ \E b \in Range(aiBots) :
           /\ bot[b].action.type = "shoot"
           /\ bot[b].action.direction = Heading(LayoutTie[Slot(b)],
                                                LayoutTie[Slot(playerBots[1])])
           /\ Dist2(LayoutTie[Slot(b)], LayoutTie[Slot(playerBots[1])])
                  = Dist2(LayoutTie[Slot(b)], LayoutTie[Slot(playerBots[2])])

\* C18: every Move intent a unit holds, committed or remembered, has a
\* distance from 0 to maxMoveDistance.
C18_MoveDistanceInRange ==
    \A b \in DOMAIN bot :
        /\ bot[b].action.type = "move" =>
               bot[b].action.distance \in 0..maxMoveDistance
        /\ bot[b].plannedMove # Nil =>
               bot[b].plannedMove[1].distance \in 0..maxMoveDistance

\* a player unit holds a Move dragged beyond maxMoveDistance and clamped to
\* it, and an AI unit holds a Move the planner gave it
C18_Witness ==
    /\ \E b \in Range(playerBots) :
           /\ bot[b].action.type = "move"
           /\ bot[b].action.target # Nil
           /\ bot[b].action.distance = maxMoveDistance
    /\ \E b \in Range(aiBots) : bot[b].action.type = "move"

\* a destroyed projectile: no owner on record, not active
Inert == [ownerBot |-> NoBot, active |-> FALSE]

\* C19: a step kills at most one unit and turns exactly one live, owned
\* projectile inert; a destroyed projectile has no owner on record, and any
\* later overlap between it and a unit changes nothing.
C19_OneHitPerProjectile ==
    /\ [](\A p \in DOMAIN particles :
             ~particles[p].active => particles[p] = Inert)
    /\ [][/\ \A b \in Surviving :
                 Killed(b) =>
                     /\ \A c \in Surviving : Killed(c) => c = b
                     /\ \E p \in DOMAIN particles :
                            /\ particles[p].active
                            /\ particles[p].ownerBot \notin {NoBot, b}
                            /\ particles' = [particles EXCEPT ![p] = Inert]
          /\ \A p \in DOMAIN particles, b \in CurrentGen :
                (~particles[p].active /\ overlapCallback(p, b)) =>
                    UNCHANGED vars]_vars

\* the projectile that killed a unit is still in the group, inert, next to a
\* live unit it could overlap and a live projectile
C19_Witness ==
    /\ SomeDead
    /\ \E p \in DOMAIN particles : particles[p] = Inert
    /\ \E p \in DOMAIN particles : particles[p].active
    /\ BothRostersFilled

\* the list s is in strictly increasing order
StrictlyIncreasing(s) == \A i, j \in 1..Len(s) : i < j => s[i] < s[j]

\* C20: every id in use is below the counter; the counter never goes down;
\* the units a step creates get ids from the counter's old value up to its
\* new one, one id each (so none is an id handed out before, in this game or
\* an earlier one); the rosters list their units in strictly increasing id
\* order.
C20_IdsUniqueNeverReused ==
    /\ [](\A b \in DOMAIN bot : b < botIdCounter)
    /\ [](StrictlyIncreasing(bots) /\ StrictlyIncreasing(playerBots)
             /\ StrictlyIncreasing(aiBots))
    /\ [][/\ botIdCounter' >= botIdCounter
          /\ \A b \in DOMAIN bot' \ DOMAIN bot :
                b >= botIdCounter /\ b < botIdCounter'
          /\ botIdCounter' # botIdCounter =>
                /\ Cardinality(DOMAIN bot') = botIdCounter' - botIdCounter
                /\ Len(bots') = botIdCounter' - botIdCounter
                /\ Range(bots') = DOMAIN bot']_vars

\* the units of a second game exist: the reset that discarded the first
\* game's units has handed out fresh ids
C20_Witness ==
    /\ botIdCounter = 2 * SquadSize + 1
    /\ DOMAIN bot = (SquadSize + 1)..(2 * SquadSize)
    /\ SomeDead

\* C21: for a player unit whose committed intent is of its current mode,
\* toggling the mode twice gives back the same intent (kind, direction,
\* distance and target) and the same mode.
C21_ToggleRoundTrip ==
    \A b \in Range(playerBots) :
        bot[b].action.type = bot[b].selectedMode =>
            LET back == toggleBotMode(toggleBotMode(bot[b]))
            IN  /\ back.action = bot[b].action
                /\ back.selectedMode = bot[b].selectedMode

\* in Planning, a player unit is back in move mode after a visit to shoot
\* mode, holding the Move it had committed by a drag on itself (length 0)
C21_Witness ==
    /\ isPlanning
    /\ \E b \in Range(playerBots) :
           /\ bot[b].selectedMode = "move"
           /\ bot[b].plannedShoot # Nil
           /\ bot[b].plannedMove # Nil
           /\ bot[b].action = bot[b].plannedMove[1]
           /\ bot[b].action.distance = 0

\* C22: right after a game reset there are PlayerSquadSize player units and
\* AiSquadSize AI units (5 and 5 in the source), all alive and all on the
\* all-units roster, every intent None with no remembered slot, no
\* projectile, and the phase is Planning.
C22_ResetGivesInitialState ==
    [][StartGame =>
          /\ Len(playerBots') = PlayerSquadSize
          /\ Len(aiBots') = AiSquadSize
          /\ bots' = playerBots' \o aiBots'
          /\ Cardinality(Range(bots')) = SquadSize
          /\ DOMAIN bot' = Range(bots')
          /\ \A b \in Range(playerBots') : bot'[b].playerId = 1
          /\ \A b \in Range(aiBots') : bot'[b].playerId = 2
          /\ \A b \in DOMAIN bot' :
                 /\ bot'[b].isAlive
                 /\ Intent(bot'[b]) = ClearedIntent
          /\ DOMAIN particles' = {}
          /\ isPlanning'
          /\ ~winText'.visible]_vars

\* a second game has just been set up over a finished one: nothing has
\* happened in it yet, and the round timer of the first game is still pending
C22_Witness ==
    /\ botIdCounter = 2 * SquadSize + 1
    /\ ~welcomeShown
    /\ isPlanning
    /\ roundTimers.stale > 0
    /\ \A b \in DOMAIN bot : bot[b].isAlive /\ Intent(bot[b]) = ClearedIntent

\* C23: the executor runs only from Planning and leaves it; the phase comes
\* back to Planning only with every roster unit's intent None; and while
\* the phase is not Planning a roster unit's intent changes only to None.
\* So an intent the executor finds at a round start was committed in the
\* planning phase that this round start ends: none is applied twice.
C23_IntentConsumedOnce ==
    [][/\ RoundStarts => (isPlanning /\ ~isPlanning')
       /\ (~isPlanning /\ isPlanning') =>
             \A b \in Range(bots') : bot'[b].action = NoneAction
       /\ ~isPlanning =>
             \A b \in Range(bots) \cap Range(bots') :
                 bot'[b].action \in {bot[b].action, NoneAction}]_vars

\* a later round is executing: a unit died in an earlier round, and a
\* player unit has its drag of this planning phase applied as velocity
C23_Witness ==
    /\ ~isPlanning
    /\ RoundExecuting
    /\ SomeDead
    /\ \A p \in DOMAIN particles : particles[p].active
    /\ \E b \in Range(playerBots) :
           /\ bot[b].action.type = "move"
           /\ bot[b].action.target # Nil
           /\ bot[b].velocity # ZeroVelocity

\* C24: the win check gives "You win!" for two empty rosters, and the kill
\* that leaves both rosters empty shows "You win!".
C24_WinTakesPrecedence ==
    /\ [](checkWinCondition(<<>>, <<>>) = "You win!")
    /\ [][\A b \in Surviving :
             (Killed(b) /\ Len(playerBots') = 0 /\ Len(aiBots') = 0) =>
                 winText' = [text |-> "You win!", visible |-> TRUE]]_vars

\* the last units of both sides have been shot in the same round: the win
\* check ran with both rosters empty
C24_Witness ==
    /\ botIdCounter > 1
    /\ Len(playerBots) = 0
    /\ Len(aiBots) = 0
    /\ winText = [text |-> "You win!", visible |-> TRUE]

\* what a planner call reads for hostile unit b: its position, its target,
\* the target's position, the squared distance and the target direction
PlannerView(b, in) ==
    LET pos == in.layout[Slot(b)]
        t == closestEnemy(pos, playerBots, in.layout, NoBot)
    IN  [pos |-> pos, target |-> t, tpos |-> in.layout[Slot(t)],
         dist2 |-> Dist2(pos, in.layout[Slot(t)]),
         direction |-> Heading(pos, in.layout[Slot(t)])]

\* the squared shooting range of the planner, 4 x shootPreviewLength
ShootRange2 == (4 * shootPreviewLength) * (4 * shootPreviewLength)

SweptMove(b, in) ==
    /\ planOne(b, playerBots, in).type = "move"
    /\ ~(SweepOffsets \subseteq in.blocked)

\* the sweep offset of a committed heading: its angle from the target
\* direction, in scan order
OffsetOf(heading, direction) == (heading - direction + 360) % 360

\* C26: a swept Move has the first clear offset of the scan order (a sweep
\* offset that is not blocked, every smaller one being blocked), keeps the
\* distance drawn from [60, maxMoveDistance], and is the direct heading when
\* nothing is blocked.
C26_FirstClearHeading ==
    \A in \in PlanInputs, b \in Range(aiBots) :
        (Len(playerBots) > 0 /\ SweptMove(b, in)) =>
            LET a == planOne(b, playerBots, in)
                off == OffsetOf(a.direction, PlannerView(b, in).direction)
            IN  /\ off \in SweepOffsets \ in.blocked
                /\ \A c \in SweepOffsets : c < off => c \in in.blocked
                /\ a.distance = in.distance
                /\ a.distance \in 60..maxMoveDistance
                /\ in.blocked = {} => a.direction = PlannerView(b, in).direction

\* a round is executing in which an AI unit holds the Move the planner
\* gives when the first two segments of the sweep are blocked
C26_Witness ==
    /\ RoundExecuting
    /\ \E b \in Range(aiBots), in \in PlanInputs :
           /\ in.blocked # {}
           /\ SweptMove(b, in)
           /\ bot[b].action = planOne(b, playerBots, in)
           /\ OffsetOf(bot[b].action.direction, PlannerView(b, in).direction)
                  = 2 * SweepStep

\* the planner call commits a Move for b after a sweep in which every
\* segment was blocked
WiggleMove(b, in) ==
    /\ planOne(b, playerBots, in).type = "move"
    /\ SweepOffsets \subseteq in.blocked

\* C27 as stated: after a full-sweep failure the Move has a distance in
\* [20, 40] and a heading that is not the target direction.
C27_WiggleAwayFromTarget ==
    \A in \in PlanInputs, b \in Range(aiBots) :
        (Len(playerBots) > 0 /\ WiggleMove(b, in)) =>
            LET a == planOne(b, playerBots, in)
            IN  /\ a.distance \in WiggleMin..WiggleMax
                /\ a.direction # PlannerView(b, in).direction

\* C27 amended: after a full-sweep failure the Move has a distance in
\* [20, 40] and the heading drawn from 0..359, which may be the target
\* direction.
C27_WiggleFallback ==
    \A in \in PlanInputs, b \in Range(aiBots) :
        (Len(playerBots) > 0 /\ WiggleMove(b, in)) =>
            LET a == planOne(b, playerBots, in)
            IN  /\ a.distance \in WiggleMin..WiggleMax
                /\ a.distance = in.wiggle.distance
                /\ a.direction = in.wiggle.angle
                /\ a.direction \in 0..359

\* a round is executing in which an AI unit, every segment of its sweep
\* blocked, holds a wiggle Move whose heading is the target direction
C27_Witness ==
    /\ RoundExecuting
    /\ \E b \in Range(aiBots), in \in PlanInputs :
           /\ WiggleMove(b, in)
           /\ bot[b].action = planOne(b, playerBots, in)
           /\ bot[b].action.direction = PlannerView(b, in).direction

\* the heading of the vector (1, 0)
UnitX == Heading(<<0, 0>>, <<1, 0>>)

\* C28: when a hostile unit and its target are at the same coordinates the
\* target direction is (1, 0), a Shoot is committed with it and a swept Move
\* with it rotated by the sweep offset; a drag whose pointer is exactly on
\* the unit commits the direction (1, 0) in either mode.
C28_DegenerateDirection ==
    /\ \A in \in PlanInputs, b \in Range(aiBots) :
           (Len(playerBots) > 0
               /\ PlannerView(b, in).pos = PlannerView(b, in).tpos) =>
               LET a == planOne(b, playerBots, in)
               IN  /\ PlannerView(b, in).direction = UnitX
                   /\ a.type = "shoot" => a.direction = UnitX
                   /\ SweptMove(b, in) =>
                          a.direction = UnitX + firstClear(in.blocked)
    /\ \A b \in Range(playerBots), angle \in {0, 90, 180} :
           LET r == applyDragAction(bot[b], [angle |-> angle, len |-> 0])
           IN  /\ r.action.direction = UnitX
               /\ r.action.target # Nil
               /\ r.action.target[1].angle = UnitX

\* a round is executing in which the AI unit shoots along (1, 0) at a player
\* unit on its own position, and a player unit holds the Move of a drag
\* that ended exactly on it
C28_Witness ==
    /\ RoundExecuting
    /\ \E b \in Range(aiBots), in \in PlanInputs :
           /\ PlannerView(b, in).pos = PlannerView(b, in).tpos
           /\ bot[b].action = planOne(b, playerBots, in)
           /\ bot[b].action.type = "shoot"
    /\ \E b \in Range(playerBots) :
           /\ bot[b].action.type = "move"
           /\ bot[b].action.target = Some([angle |-> UnitX, len |-> 0])

\* the projectiles owned by b that the step adds to the group
Spawned(b) ==
    {p \in DOMAIN particles' \ DOMAIN particles : particles'[p].ownerBot = b}

\* C29: the step that starts a round adds BurstSize live projectiles (3 in
\* the source) owned by each roster unit whose intent is Shoot, none for a
\* unit whose intent is Move or None, none for anyone off the roster, and
\* leaves the velocity of a unit whose intent is None as it is; the group
\* never holds more than one burst per unit, which is below the pool limit.
C29_BurstPerShooter ==
    /\ [][RoundStarts =>
             /\ \A b \in Range(bots) :
                    /\ bot'[b].action.type = "shoot" =>
                           /\ Cardinality(Spawned(b)) = BurstSize
                           /\ \A p \in Spawned(b) : particles'[p].active
                    /\ bot'[b].action.type # "shoot" => Spawned(b) = {}
                    /\ bot'[b].action.type = "none" =>
                           bot'[b].velocity = bot[b].velocity
             /\ \A p \in DOMAIN particles' \ DOMAIN particles :
                    particles'[p].ownerBot \in Range(bots)]_vars
    /\ [](/\ Cardinality(DOMAIN particles) <= SquadSize * BurstSize
          /\ SquadSize * BurstSize < PoolMax)

\* a round is executing with a shooting unit and its burst in flight, a
\* moving unit and a unit without intent, the last two without projectiles
C29_Witness ==
    /\ RoundExecuting
    /\ ~isPlanning
    /\ \E b \in Range(bots) :
           /\ bot[b].action.type = "shoot"
           /\ Cardinality({p \in DOMAIN particles :
                              particles[p] = [ownerBot |-> b, active |-> TRUE]})
                  = BurstSize
    /\ \E b \in Range(bots) :
           /\ bot[b].action.type = "move"
           /\ \A p \in DOMAIN particles : particles[p].ownerBot # b
    /\ \E b \in Range(bots) :
           /\ bot[b].action.type = "none"
           /\ \A p \in DOMAIN particles : particles[p].ownerBot # b

\* C30: a projectile that overlaps a barrier ends destroyed with no owner on
\* record, whoever owned it; every other projectile, every unit (alive flag,
\* intent, velocity) and every roster stay as they are.
C30_BarrierDestroysProjectile ==
    [][\A p \in DOMAIN particles :
          destroyBullet(p) =>
              /\ particles' = [particles EXCEPT ![p] = Inert]
              /\ UNCHANGED <<bot, rosterVars, winText, isPlanning>>]_vars

\* a round is executing with nobody dead and a destroyed projectile in the
\* group whose owner is a live unit of the roster
C30_Witness ==
    /\ RoundExecuting
    /\ ~SomeDead
    /\ \E b \in Range(bots) :
           /\ bot[b].action.type = "shoot"
           /\ particles[<<b, 1>>] = Inert

\* the units of the side of unit b
SameSide(b) == {o \in DOMAIN bot : bot[o].playerId = bot[b].playerId}

\* C31: a live projectile owned by unit A and a live roster unit B other
\* than A, of whichever side, pass every early return of the hit resolver;
\* and when the overlap callback runs for them, B ends dead and in no
\* roster, the projectile ends destroyed with no owner, and every other unit
\* stays in the rosters it was in.
C31_FriendlyFireKills ==
    /\ [](\A p \in DOMAIN particles, b \in Range(bots) :
            (/\ particles[p].active
             /\ particles[p].ownerBot \notin {NoBot, b}
             /\ bot[b].isAlive) => ~hitIgnored(b, p))
    /\ [][\A p \in DOMAIN particles, b \in Range(bots) :
             (/\ particles[p].active
              /\ particles[p].ownerBot \notin {NoBot, b}
              /\ bot[b].isAlive
              /\ overlapCallback(p, b)) =>
                 /\ ~bot'[b].isAlive
                 /\ bots' = removeBot(bots, b)
                 /\ playerBots' = removeBot(playerBots, b)
                 /\ aiBots' = removeBot(aiBots, b)
                 /\ b \notin Range(bots') \cup Range(playerBots') \cup Range(aiBots')
                 /\ particles' = [particles EXCEPT ![p] = Inert]]_vars

\* a round of the first game is executing; a player unit is dead and the
\* projectile of the other player unit, which shot, is destroyed, while
\* every projectile of the AI side is still in flight
C31_Witness ==
    /\ RoundExecuting
    /\ botIdCounter = SquadSize + 1
    /\ Len(aiBots) = AiSquadSize
    /\ \A a \in Range(aiBots) :
           /\ bot[a].action.type = "shoot"
           /\ \A k \in 1..BurstSize :
                  /\ <<a, k>> \in DOMAIN particles
                  /\ particles[<<a, k>>].active
    /\ \E b \in Range(playerBots) : \E d \in SameSide(b) :
           /\ ~bot[d].isAlive
           /\ bot[b].isAlive
           /\ bot[b].action.type = "shoot"
           /\ particles[<<b, 1>>] = Inert

NoParticles == DOMAIN particles = {}

\* C33: a round starts with the group empty, so every projectile in the
\* group was spawned by the round start before it; while the group holds a
\* projectile the timer of that round start is pending and the phase is not
\* Planning; every round timer that fires leaves the group empty; and a
\* group that holds a projectile is eventually empty.
C33_ProjectileWithinRound ==
    /\ [][RoundStarts => NoParticles]_vars
    /\ [](~NoParticles => (roundTimers.cur > 0 /\ ~isPlanning))
    /\ [][RoundTimer => NoParticles']_vars
    /\ (~NoParticles ~> NoParticles)

\* a later round of the first game is executing, no reset and no stale timer
\* involved: a unit was shot in an earlier round and the projectile that
\* did it is no longer in the group, which holds only projectiles in flight
C33_Witness ==
    /\ botIdCounter = SquadSize + 1
    /\ roundTimers = [cur |-> 1, stale |-> 0]
    /\ ~GameOver
    /\ SomeDead
    /\ ~NoParticles
    /\ \A p \in DOMAIN particles :
           particles[p] = [ownerBot |-> p[1], active |-> TRUE]

\* C34: while an outcome message stays on show (no reset hides it), no step
\* replaces its text with the other outcome.
C34_OutcomeStable ==
    [][(winText.visible /\ winText'.visible) =>
          winText'.text = winText.text]_vars

\* C35: at most one round timer is pending, so no round starts while the
\* timer of an earlier round start is pending.
C35_OneRoundTimer == PendingRoundTimers <= 1

\* the step shows an outcome message (showWinMessage arms its timeout)
WinDetected == welcomeTimers' > welcomeTimers

\* C36: while the phase is Planning the group holds no projectile; a step
\* that kills a unit or detects a win condition is taken only while the
\* phase is not Planning and a round timer of the current game is pending,
\* and it does not make the phase Planning.
C36_NoKillWhilePlanning ==
    /\ [](isPlanning => NoParticles)
    /\ [][((\E b \in Surviving : Killed(b)) \/ WinDetected) =>
             (~isPlanning /\ ~isPlanning' /\ roundTimers.cur > 0)]_vars

\* a unit has been shot in the round that is executing (the projectile that
\* did it is in the group, destroyed), with no outcome reached
C36_Witness ==
    /\ ~isPlanning
    /\ roundTimers.cur > 0
    /\ ~GameOver
    /\ BothRostersFilled
    /\ SomeDead
    /\ \E p \in DOMAIN particles : particles[p] = Inert

\* the sequence has no element twice
NoDuplicates(s) == Cardinality(Range(s)) = Len(s)

\* C37: the all-units roster is the player roster followed by the AI
\* roster, no unit is in a roster twice or in both side rosters, every
\* roster unit is alive and is in the roster of its own side, and no side
\* roster holds more units than a squad has at creation.
C37_RosterConsistency ==
    /\ bots = playerBots \o aiBots
    /\ NoDuplicates(bots)
    /\ Range(playerBots) \cap Range(aiBots) = {}
    /\ \A b \in Range(bots) : b \in DOMAIN bot /\ bot[b].isAlive
    /\ \A b \in Range(playerBots) : bot[b].playerId = 1
    /\ \A b \in Range(aiBots) : bot[b].playerId = 2
    /\ Len(playerBots) <= PlayerSquadSize
    /\ Len(aiBots) <= AiSquadSize

\* a player unit has been shot and removed: the player roster is one short
\* of a squad, the AI roster is full
C37_Witness ==
    /\ Len(playerBots) = PlayerSquadSize - 1
    /\ Len(aiBots) = AiSquadSize
    /\ Len(bots) = SquadSize - 1
    /\ \E b \in DOMAIN bot : bot[b].playerId = 1 /\ ~bot[b].isAlive

\* the remembered-intent slot of the unit's selected mode
SelectedSlot(r) ==
    IF r.selectedMode = "move" THEN r.plannedMove ELSE r.plannedShoot

\* C38: the committed intent of a player unit is None or of the unit's
\* selected mode, and when it is not None the remembered slot of that mode
\* is set and holds the committed intent.
C38_IntentMatchesMode ==
    \A b \in DOMAIN bot :
        bot[b].playerId = 1 =>
            \/ bot[b].action.type = "none"
            \/ /\ bot[b].action.type = bot[b].selectedMode
               /\ SelectedSlot(bot[b]) = Some(bot[b].action)

\* a player unit in Shoot mode with a Shoot committed, restored from or
\* written to its Shoot slot, while its Move slot holds an earlier drag
C38_Witness ==
    \E b \in Range(playerBots) :
        /\ bot[b].selectedMode = "shoot"
        /\ bot[b].action.type = "shoot"
        /\ bot[b].plannedShoot = Some(bot[b].action)
        /\ bot[b].plannedMove # Nil
        /\ bot[b].plannedMove[1].distance = maxMoveDistance

\* what a planner call must leave alone in a unit: everything but the
\* committed intent
Unplanned(r) ==
    <<r.playerId, r.isAlive, r.selectedMode, r.plannedMove, r.plannedShoot,
      r.velocity>>

\* C39: for every input of the call, the planner returns the same units;
\* a unit outside the hostile list comes back as it was, a hostile unit
\* comes back with at most its committed intent changed.  The round start
\* that makes the call changes no roster, no alive flag, mode or slot, and
\* no intent of a unit outside the AI roster.
C39_PlannerFrame ==
    /\ [](\A in \in PlanInputs :
            LET planned == planAiActions(bot, playerBots, aiBots, in)
            IN  /\ DOMAIN planned = DOMAIN bot
                /\ \A b \in DOMAIN bot :
                       /\ Unplanned(planned[b]) = Unplanned(bot[b])
                       /\ b \notin Range(aiBots) => planned[b] = bot[b])
    /\ [][RoundStarts =>
             /\ UNCHANGED rosterVars
             /\ DOMAIN bot' = DOMAIN bot
             /\ \A b \in DOMAIN bot :
                    /\ bot'[b].isAlive = bot[b].isAlive
                    /\ bot'[b].selectedMode = bot[b].selectedMode
                    /\ bot'[b].plannedMove = bot[b].plannedMove
                    /\ bot'[b].plannedShoot = bot[b].plannedShoot
                    /\ b \notin Range(aiBots) =>
                           bot'[b].action = bot[b].action]_vars

\* a round is executing after a planner call that had something to leave
\* alone and something to plan: a player unit in Shoot mode holds the Shoot
\* it committed and its two slots, a player unit is dead, and an AI unit
\* holds a planned Move
C39_Witness ==
    /\ RoundExecuting
    /\ ~isPlanning
    /\ \E b \in Range(playerBots) :
           /\ bot[b].selectedMode = "shoot"
           /\ bot[b].action.type = "shoot"
           /\ bot[b].plannedShoot # Nil
           /\ bot[b].plannedMove # Nil
    /\ \E d \in DOMAIN bot : bot[d].playerId = 1 /\ ~bot[d].isAlive
    /\ \E a \in Range(aiBots) :
           /\ bot[a].action.type = "move"
           /\ bot[a].velocity # ZeroVelocity
====
